---------------------------- MODULE Spec2Model ----------------------------
(***************************************************************************)
(* A model of the brainfsk library (src/src/lib.rs) and of the way its     *)
(* binary drives it (src/src/main.rs): the recursive-descent parser, the   *)
(* execution Context with its tape and data pointer, and the byte input.   *)
(*                                                                         *)
(* Four specifications share the variables:                                *)
(*   SpecParse  parse applied to every text of bounded length;             *)
(*   SpecTape   a caller using the public getdata / setdata of a Context;  *)
(*   Spec       main: parse a text, then execute it in a fresh Context;    *)
(*   SpecCaller a caller that writes one cell with setdata and then parses *)
(*              and executes a text in that Context.                       *)
(***************************************************************************)
EXTENDS Integers, Sequences, FiniteSets, TLC

VARIABLES
    text,      \* the characters of the stream handed to parse
    presult,   \* what parse returned for text (NotParsed before the call)
    entry,     \* history: dp and data as the call of execute by main found them
    dp,        \* Context.dp
    data,      \* Context.data (1-based here: data[a + 1] is cell a)
    out,       \* what has been printed to stdout, oldest first
    stack,     \* the active calls of execute, innermost last
    status,    \* where the run is: "new", "running", "unwinding", "ok", ...
    fault,     \* the panic or error that ended the run, "none" otherwise
    last,      \* history: the last step taken and the state it started in
    calls      \* history: the number of getdata / setdata calls made

vars == <<text, presult, entry, dp, data, out, stack, status, fault, last, calls>>

(***************************************************************************)
(* Bounds of the model.                                                    *)
(***************************************************************************)
\* longest text handed to parse under SpecParse
ParseMaxLen == 5
\* longest text main parses and executes under Spec (the named programs of
\* ExtraPrograms apart)
ExecMaxLen == 4
\* width in bits of the model's usize
UsizeBits == 3
\* number of items of stdout the model keeps track of
MaxOut == 4
\* number of getdata / setdata calls a caller makes under SpecTape
MaxCalls == 2
\* the loop iteration counter of the history saturates here
IterCap == 256

(***************************************************************************)
(* Machine integers.                                                       *)
(***************************************************************************)
\* u8 holds 0 .. 255
ByteMod == 256
Byte == 0 .. (ByteMod - 1)
\* usize holds 0 .. UsizeMax
UsizeMod == 2 ^ UsizeBits
UsizeMax == UsizeMod - 1
Usize == 0 .. UsizeMax
\* a Vec never holds more than isize::MAX bytes
IsizeMax == (2 ^ (UsizeBits - 1)) - 1

(***************************************************************************)
(* The AST.                                                                *)
(***************************************************************************)
Command == {"IncPointer", "DecPointer", "IncData", "DecData", "GetByte", "PutByte"}

Op(c) == [node |-> "Op", cmd |-> c, body |-> <<>>]

Loop(p) == [node |-> "Loop", cmd |-> "none", body |-> p]

NoAst == [node |-> "none", cmd |-> "none", body |-> <<>>]

(***************************************************************************)
(* The parser.  The stream is the pair (s, pos): pos characters of s have  *)
(* been taken by stream.next().                                            *)
(***************************************************************************)
\* ParseResult, with the position the stream is left at
PSome(ast, pos) == [kind |-> "Some", ast |-> ast, err |-> "", pos |-> pos]

PIgnore(pos) == [kind |-> "Ignore", ast |-> NoAst, err |-> "", pos |-> pos]

PLoopEnd(pos) == [kind |-> "LoopEnd", ast |-> NoAst, err |-> "", pos |-> pos]

PErr(d, pos) == [kind |-> "Err", ast |-> NoAst, err |-> d, pos |-> pos]

\* Result<Program, ParseError>
ParseOk(program, pos) == [kind |-> "Ok", program |-> program, err |-> "", pos |-> pos]

ParseErr(d, pos) == [kind |-> "Err", program |-> <<>>, err |-> d, pos |-> pos]

NotParsed == [kind |-> "none", program |-> <<>>, err |-> "", pos |-> 0]

ExtraClose == "extra ']'"

MissingClose == "Missing ']' character"

RECURSIVE parse_char(_, _, _)
RECURSIVE parse_loop_iter(_, _, _)
RECURSIVE parse_iter(_, _, _)

\* parse_char with the arm for '.' left out
parse_char_no_putbyte(c, s, pos) ==
    CASE c = ">" -> PSome(Op("IncPointer"), pos)
      [] c = "<" -> PSome(Op("DecPointer"), pos)
      [] c = "+" -> PSome(Op("IncData"), pos)
      [] c = "-" -> PSome(Op("DecData"), pos)
      [] c = "," -> PSome(Op("GetByte"), pos)
      [] c = "[" -> parse_loop_iter(s, pos, <<>>)
      [] c = "]" -> PLoopEnd(pos)
      [] OTHER   -> PIgnore(pos)

parse_char(c, s, pos) ==
    CASE c = ">" -> PSome(Op("IncPointer"), pos)
      [] c = "<" -> PSome(Op("DecPointer"), pos)
      [] c = "+" -> PSome(Op("IncData"), pos)
      [] c = "-" -> PSome(Op("DecData"), pos)
      [] c = "," -> PSome(Op("GetByte"), pos)
      [] c = "." -> PSome(Op("PutByte"), pos)
      [] c = "[" -> parse_loop_iter(s, pos, <<>>)
      [] c = "]" -> PLoopEnd(pos)
      [] OTHER   -> PIgnore(pos)

\* the loop of parse_loop that closes the loop at the end of the stream
parse_loop_iter_autoclose(s, pos, commands) ==
    IF pos < Len(s)
    THEN LET r == parse_char(s[pos + 1], s, pos + 1)
         IN  CASE r.kind = "Some"    -> parse_loop_iter(s, r.pos, Append(commands, r.ast))
               [] r.kind = "Ignore"  -> parse_loop_iter(s, r.pos, commands)
               [] r.kind = "LoopEnd" -> PSome(Loop(commands), r.pos)
               [] OTHER              -> r
    ELSE PSome(Loop(commands), pos)

\* the loop of parse_loop that puts each node in front of the ones it has
parse_loop_iter_push_front(s, pos, commands) ==
    IF pos < Len(s)
    THEN LET r == parse_char(s[pos + 1], s, pos + 1)
         IN  CASE r.kind = "Some"    -> parse_loop_iter(s, r.pos, <<r.ast>> \o commands)
               [] r.kind = "Ignore"  -> parse_loop_iter(s, r.pos, commands)
               [] r.kind = "LoopEnd" -> PSome(Loop(commands), r.pos)
               [] OTHER              -> r
    ELSE PErr(MissingClose, pos)

\* the loop of parse_loop, commands being the nodes pushed so far
parse_loop_iter(s, pos, commands) ==
    IF pos < Len(s)
    THEN LET r == parse_char(s[pos + 1], s, pos + 1)
         IN  CASE r.kind = "Some"    -> parse_loop_iter(s, r.pos, Append(commands, r.ast))
               [] r.kind = "Ignore"  -> parse_loop_iter(s, r.pos, commands)
               [] r.kind = "LoopEnd" -> PSome(Loop(commands), r.pos)
               [] OTHER              -> r
    ELSE PErr(MissingClose, pos)

parse_loop(s, pos) == parse_loop_iter(s, pos, <<>>)

\* the loop of parse that skips a ']' read at the top level
parse_iter_skip_close(s, pos, program) ==
    IF pos < Len(s)
    THEN LET r == parse_char(s[pos + 1], s, pos + 1)
         IN  CASE r.kind = "Some"    -> parse_iter(s, r.pos, Append(program, r.ast))
               [] r.kind = "Ignore"  -> parse_iter(s, r.pos, program)
               [] r.kind = "LoopEnd" -> parse_iter(s, r.pos, program)
               [] OTHER              -> ParseErr(r.err, r.pos)
    ELSE ParseOk(program, pos)

\* the loop of parse, program being the nodes pushed so far
parse_iter(s, pos, program) ==
    IF pos < Len(s)
    THEN LET r == parse_char(s[pos + 1], s, pos + 1)
         IN  CASE r.kind = "Some"    -> parse_iter(s, r.pos, Append(program, r.ast))
               [] r.kind = "Ignore"  -> parse_iter(s, r.pos, program)
               [] r.kind = "LoopEnd" -> ParseErr(ExtraClose, r.pos)
               [] OTHER              -> ParseErr(r.err, r.pos)
    ELSE ParseOk(program, pos)

parse(s) == parse_iter(s, 0, <<>>)

(***************************************************************************)
(* The texts.                                                              *)
(***************************************************************************)
OpChars == {">", "<", "+", "-", ",", "."}

\* "x" stands for every character parse_char ignores
Alphabet == OpChars \cup {"[", "]", "x"}

Texts(A, n) == UNION {[1 .. k -> A] : k \in 0 .. n}

ParseTexts == Texts(Alphabet, ParseMaxLen)

(***************************************************************************)
(* The Context: dp and data.                                               *)
(***************************************************************************)
Zeroes(n) == [i \in 1 .. n |-> 0]

\* getdata that takes the last cell for one beyond the tape
getdata_off_by_one(d, address) ==
    IF address + 1 >= Len(d) THEN 0 ELSE d[address + 1]

getdata(d, address) ==
    IF address >= Len(d) THEN 0 ELSE d[address + 1]

\* setdata that resizes the tape to end at address
setdata_resize(d, address, value) ==
    IF address + 1 > IsizeMax
    THEN {[data |-> d, fault |-> "capacity"]}
    ELSE {[data |-> SubSeq(d \o Zeroes(address + 1), 1, address) \o <<value>>,
           fault |-> "none"]}

\* setdata(address, value) on the tape d: the set of its outcomes, each the
\* tape left and the panic raised ("none" when it returns).  address -
\* len + 1 exceeds usize only for address = usize::MAX on an empty tape:
\* a build with overflow checks panics there ("overflow"), one without wraps
\* diff to 0, extends by nothing and fails the assertion ("assert").  A Vec
\* asked to grow beyond isize::MAX bytes panics in extend ("capacity").
setdata(d, address, value) ==
    IF address >= Len(d)
    THEN LET sum     == address - Len(d) + 1
             diff    == sum % UsizeMod
             checked ==
                 IF sum > UsizeMax
                 THEN [data |-> d, fault |-> "overflow"]
                 ELSE IF Len(d) + diff > IsizeMax
                 THEN [data |-> d, fault |-> "capacity"]
                 ELSE [data |-> [(d \o Zeroes(diff)) EXCEPT ![address + 1] = value],
                       fault |-> "none"]
             wrapped ==
                 IF Len(d) + diff > IsizeMax
                 THEN [data |-> d, fault |-> "capacity"]
                 ELSE IF ~(address < Len(d \o Zeroes(diff)))
                 THEN [data |-> d \o Zeroes(diff), fault |-> "assert"]
                 ELSE [data |-> [(d \o Zeroes(diff)) EXCEPT ![address + 1] = value],
                       fault |-> "none"]
         IN  {checked, wrapped}
    ELSE {[data |-> [d EXCEPT ![address + 1] = value], fault |-> "none"]}

cur_data(d, p) == getdata(d, p)

\* set_cur_data that writes the cell after the pointer's
set_cur_data_next(d, p, value) == setdata(d, (p + 1) % UsizeMod, value)

set_cur_data(d, p, value) == setdata(d, p, value)

wrapping_add_usize(p) == (p + 1) % UsizeMod

\* dp.saturating_sub(1) in the place of dp.wrapping_sub(1)
saturating_sub_usize(p) == IF p = 0 THEN 0 ELSE p - 1

wrapping_sub_usize(p) == (p + UsizeMod - 1) % UsizeMod

\* cur_data.wrapping_sub(1) in the place of cur_data.wrapping_add(1)
wrapping_add_u8_as_sub(v) == (v + ByteMod - 1) % ByteMod

wrapping_add_u8(v) == (v + 1) % ByteMod

wrapping_sub_u8(v) == (v + ByteMod - 1) % ByteMod

\* the condition of the while of a Loop node that stops one short
loop_condition_above_one(d, p) == getdata(d, p) > 1

\* the condition of the while of a Loop node, inverted
loop_condition_inverted(d, p) == getdata(d, p) = 0

\* the condition of the while of a Loop node that reads cell 0
loop_condition_cell_zero(d, p) == getdata(d, 0) # 0

\* the condition of the while of a Loop node
loop_condition(d, p) == getdata(d, p) # 0

(***************************************************************************)
(* stdout.                                                                 *)
(***************************************************************************)
\* print!("{:}", v as char)
Char(v) == [kind |-> "char", cp |-> v, line |-> ""]

\* println!(s)
Line(s) == [kind |-> "line", cp |-> 0, line |-> s]

Prompt == Line("enter single byte: ")

\* print!("{}", self.cur_data()), the cast left out: a digit of the number
printed_char_decimal(d, p) == Char(48 + (cur_data(d, p) % 10))

\* what Op(PutByte) prints: self.cur_data() as char
printed_char(d, p) == Char(cur_data(d, p))

(***************************************************************************)
(* getbyte.  One turn of its loop, given what stdin().read_line returned:  *)
(* r.ok says whether the read succeeded and r.input holds the bytes read   *)
(* (valid UTF-8, the line end included; empty at the end of the input).    *)
(***************************************************************************)
ReadErr == [ok |-> FALSE, input |-> <<>>]

ReadOk(bytes) == [ok |-> TRUE, input |-> bytes]

\* a failed read; "" at the end of input; "\n"; "a\n"; "\u{e9}"; "\0"
ReadResults ==
    {ReadErr, ReadOk(<<>>), ReadOk(<<10>>), ReadOk(<<97, 10>>),
     ReadOk(<<195, 169>>), ReadOk(<<0>>)}

\* the code point of input.chars().next(), input not empty
first_char(input) ==
    IF input[1] < 128
    THEN input[1]
    ELSE (input[1] - 192) * 64 + (input[2] - 128)

getbyte_turn(r) ==
    IF ~r.ok
    THEN [kind |-> "Err", byte |-> 0, printed |-> <<Prompt>>]
    ELSE IF Len(r.input) > 1
    THEN [kind |-> "Continue", byte |-> 0,
          printed |-> <<Prompt, Line("only a single char, please")>>]
    ELSE IF r.input = <<>>
    THEN [kind |-> "Panic", byte |-> 0, printed |-> <<Prompt>>]
    ELSE IF first_char(r.input) > 256
    THEN [kind |-> "Continue", byte |-> 0,
          printed |-> <<Prompt, Line("char must fit in a single byte")>>]
    ELSE [kind |-> "Ok", byte |-> r.input[1], printed |-> <<Prompt>>]

(***************************************************************************)
(* The calls of execute.  A frame is one call: its program, the index of   *)
(* the node the for loop is at, and, as history of the Loop node at pc,    *)
(* the number n of runs of its body so far and the dp and data its first   *)
(* condition check saw.                                                    *)
(***************************************************************************)
Frame(p) == [prog |-> p, pc |-> 1, n |-> 0, edp |-> 0, edata |-> <<>>]

Advance(f) == [f EXCEPT !.pc = f.pc + 1, !.n = 0, !.edp = 0, !.edata = <<>>]

Top == stack[Len(stack)]

SetTop(f) == [stack EXCEPT ![Len(stack)] = f]

Pop == SubSeq(stack, 1, Len(stack) - 1)

\* the for loop of the innermost call is at a node
AtNode == status = "running" /\ stack # <<>> /\ Top.pc <= Len(Top.prog)

Node == Top.prog[Top.pc]

AtOp(c) == AtNode /\ Node.node = "Op" /\ Node.cmd = c

AtLoop == AtNode /\ Node.node = "Loop"

Min(a, b) == IF a < b THEN a ELSE b

\* line 57 with the try! left out: the body's Err is dropped and the while
\* of the caller goes on
body_returned_err_dropped(st) == [stack |-> st, status |-> "running"]

\* line 57, try!(self.execute(x)) when the body's call returned Err: the
\* call is over and its caller returns the Err in turn
body_returned_err(st) == [stack |-> SubSeq(st, 1, Len(st) - 1), status |-> "unwinding"]

(***************************************************************************)
(* History.                                                                *)
(***************************************************************************)
NoLast ==
    [op |-> "none", addr |-> 0, val |-> 0, ret |-> 0, read |-> ReadErr, res |-> "",
     dp |-> 0, data |-> <<>>, out |-> <<>>, depth |-> 0,
     body |-> <<>>, n |-> 0, edp |-> 0, edata |-> <<>>]

\* the step op, taken from the current state
Did(op) ==
    [NoLast EXCEPT !.op = op, !.dp = dp, !.data = data, !.out = out,
                   !.depth = Len(stack)]

(***************************************************************************)
(* Context::new(), before anything is parsed or run.                       *)
(***************************************************************************)
new ==
    /\ dp = 0
    /\ data = <<>>
    /\ out = <<>>
    /\ stack = <<>>
    /\ status = "new"
    /\ fault = "none"
    /\ last = NoLast
    /\ calls = 0
    /\ entry = [dp |-> 0, data |-> <<>>]

(***************************************************************************)
(* SpecParse: parse on every text.                                         *)
(***************************************************************************)
InitParse ==
    /\ text \in ParseTexts
    /\ presult = NotParsed
    /\ new

ParseText ==
    /\ presult = NotParsed
    /\ presult' = parse(text)
    /\ UNCHANGED <<text, entry, dp, data, out, stack, status, fault, last, calls>>

NextParse == ParseText

SpecParse == InitParse /\ [][NextParse]_vars

(***************************************************************************)
(* SpecTape: a caller of the public getdata and setdata.                   *)
(***************************************************************************)
TapeValues == {0, 1, 255}

Init ==
    /\ text = <<>>
    /\ presult = NotParsed
    /\ new

CallGetData(address) ==
    /\ status = "new"
    /\ calls < MaxCalls
    /\ calls' = calls + 1
    /\ last' = [Did("getdata") EXCEPT !.addr = address, !.ret = getdata(data, address)]
    /\ UNCHANGED <<text, entry, presult, dp, data, out, stack, status, fault>>

CallSetData(address, value) ==
    /\ status = "new"
    /\ calls < MaxCalls
    /\ calls' = calls + 1
    /\ last' = [Did("setdata") EXCEPT !.addr = address, !.val = value]
    /\ \E o \in setdata(data, address, value) :
          /\ data' = o.data
          /\ fault' = o.fault
          /\ status' = IF o.fault = "none" THEN "new" ELSE "panic"
    /\ UNCHANGED <<text, entry, presult, dp, out, stack>>

NextTape ==
    \/ \E a \in Usize : CallGetData(a)
    \/ \E k \in Usize, v \in TapeValues : CallSetData(UsizeMax - k, v)

SpecTape == Init /\ [][NextTape]_vars

(***************************************************************************)
(* Spec: main.  It parses the text and, parse having returned Ok, runs the *)
(* program in the fresh Context.                                           *)
(***************************************************************************)
ExtraPrograms ==
    { <<"+", "[", ">", "+", "<", "-", "]">> }

ExecTexts == Texts(OpChars \cup {"[", "]"}, ExecMaxLen) \cup ExtraPrograms

Main(t) ==
    /\ status = "new"
    /\ text' = t
    /\ presult' = parse(t)
    /\ entry' = [dp |-> dp, data |-> data]
    /\ IF presult'.kind = "Ok"
       THEN stack' = <<Frame(presult'.program)>> /\ status' = "running"
       ELSE stack' = <<>> /\ status' = "parse_error"
    /\ UNCHANGED <<dp, data, out, fault, last, calls>>

\* Op(IncPointer) => self.dp = self.dp.wrapping_add(1)
IncPointer ==
    /\ AtOp("IncPointer")
    /\ dp' = wrapping_add_usize(dp)
    /\ stack' = SetTop(Advance(Top))
    /\ last' = Did("IncPointer")
    /\ UNCHANGED <<text, entry, presult, data, out, status, fault, calls>>

\* Op(DecPointer) => self.dp = self.dp.wrapping_sub(1)
DecPointer ==
    /\ AtOp("DecPointer")
    /\ dp' = wrapping_sub_usize(dp)
    /\ stack' = SetTop(Advance(Top))
    /\ last' = Did("DecPointer")
    /\ UNCHANGED <<text, entry, presult, data, out, status, fault, calls>>

\* self.set_cur_data(value) as the step of the node the innermost call is at
Write(value) ==
    \E o \in set_cur_data(data, dp, value) :
       /\ data' = o.data
       /\ fault' = o.fault
       /\ IF o.fault = "none"
          THEN stack' = SetTop(Advance(Top)) /\ status' = "running"
          ELSE stack' = stack /\ status' = "panic"

\* Op(IncData) => self.set_cur_data(cur_data.wrapping_add(1))
IncData ==
    /\ AtOp("IncData")
    /\ Write(wrapping_add_u8(cur_data(data, dp)))
    /\ last' = [Did("IncData") EXCEPT !.val = wrapping_add_u8(cur_data(data, dp))]
    /\ UNCHANGED <<text, entry, presult, dp, out, calls>>

\* Op(DecData) => self.set_cur_data(cur_data.wrapping_sub(1))
DecData ==
    /\ AtOp("DecData")
    /\ Write(wrapping_sub_u8(cur_data(data, dp)))
    /\ last' = [Did("DecData") EXCEPT !.val = wrapping_sub_u8(cur_data(data, dp))]
    /\ UNCHANGED <<text, entry, presult, dp, out, calls>>

\* Op(GetByte) => self.set_cur_data(try!(Context::getbyte())): one turn of
\* getbyte's loop, r being what read_line returned
GetByte(r) ==
    /\ AtOp("GetByte")
    /\ LET g == getbyte_turn(r)
       IN  /\ Len(out) + Len(g.printed) <= MaxOut
           /\ out' = out \o g.printed
           /\ last' = [Did("GetByte") EXCEPT !.read = r, !.res = g.kind, !.val = g.byte]
           /\ CASE g.kind = "Ok" ->
                     Write(g.byte)
                [] g.kind = "Continue" ->
                     UNCHANGED <<data, stack, status, fault>>
                [] g.kind = "Panic" ->
                     /\ status' = "panic"
                     /\ fault' = "unwrap"
                     /\ UNCHANGED <<data, stack>>
                [] g.kind = "Err" ->
                     \* try! returns the Err from this call of execute
                     /\ status' = "unwinding"
                     /\ fault' = "io"
                     /\ stack' = Pop
                     /\ data' = data
    /\ UNCHANGED <<text, entry, presult, dp, calls>>

\* Op(PutByte) => print!("{:}", self.cur_data() as char)
PutByte ==
    /\ AtOp("PutByte")
    /\ Len(out) < MaxOut
    /\ out' = Append(out, printed_char(data, dp))
    /\ stack' = SetTop(Advance(Top))
    /\ last' = Did("PutByte")
    /\ UNCHANGED <<text, entry, presult, dp, data, status, fault, calls>>

\* Loop(ref x): the condition of the while holds and execute(x) is called
LoopEnter ==
    /\ AtLoop
    /\ loop_condition(data, dp)
    /\ LET f == Top
           g == [f EXCEPT !.n = Min(f.n + 1, IterCap),
                          !.edp = IF f.n = 0 THEN dp ELSE f.edp,
                          !.edata = IF f.n = 0 THEN data ELSE f.edata]
       IN  /\ stack' = Append(SetTop(g), Frame(Node.body))
           /\ last' = [Did("LoopEnter") EXCEPT !.body = Node.body, !.n = f.n,
                           !.edp = g.edp, !.edata = g.edata]
    /\ UNCHANGED <<text, entry, presult, dp, data, out, status, fault, calls>>

\* Loop(ref x): the condition of the while fails and the for loop moves on
LoopExit ==
    /\ AtLoop
    /\ ~loop_condition(data, dp)
    /\ LET f == Top
       IN  /\ stack' = SetTop(Advance(f))
           /\ last' = [Did("LoopExit") EXCEPT !.body = Node.body, !.n = f.n,
                           !.edp = IF f.n = 0 THEN dp ELSE f.edp,
                           !.edata = IF f.n = 0 THEN data ELSE f.edata]
    /\ UNCHANGED <<text, entry, presult, dp, data, out, status, fault, calls>>

\* the for loop is over: Ok(()), to the while of the caller or to main
ReturnOk ==
    /\ status = "running"
    /\ stack # <<>>
    /\ Top.pc > Len(Top.prog)
    /\ stack' = Pop
    /\ status' = IF Len(stack) = 1 THEN "ok" ELSE "running"
    /\ UNCHANGED <<text, entry, presult, dp, data, out, fault, last, calls>>

\* an Err comes back to line 57 of the calling execute, or to main
ReturnErr ==
    /\ status = "unwinding"
    /\ IF stack = <<>>
       THEN stack' = stack /\ status' = "err"
       ELSE LET b == body_returned_err(stack)
            IN  stack' = b.stack /\ status' = b.status
    /\ UNCHANGED <<text, entry, presult, dp, data, out, fault, last, calls>>

Next ==
    \/ status = "new" /\ \E t \in ExecTexts : Main(t)
    \/ IncPointer
    \/ DecPointer
    \/ IncData
    \/ DecData
    \/ \E r \in ReadResults : GetByte(r)
    \/ PutByte
    \/ LoopEnter
    \/ LoopExit
    \/ ReturnOk
    \/ ReturnErr

Spec == Init /\ [][Next]_vars

(***************************************************************************)
(* SpecCaller: a caller of the library that writes one cell of a fresh     *)
(* Context with setdata before it parses and executes a text, short or one *)
(* of the named programs.                                                  *)
(***************************************************************************)
CallerTexts == Texts(OpChars \cup {"[", "]"}, ExecMaxLen - 2) \cup ExtraPrograms

Prepare(address, value) ==
    /\ calls = 0
    /\ CallSetData(address, value)

NextCaller ==
    \/ \E k \in Usize, v \in TapeValues : Prepare(UsizeMax - k, v)
    \/ status = "new" /\ \E t \in CallerTexts : Main(t)
    \/ IncPointer
    \/ DecPointer
    \/ IncData
    \/ DecData
    \/ \E r \in ReadResults : GetByte(r)
    \/ PutByte
    \/ LoopEnter
    \/ LoopExit
    \/ ReturnOk
    \/ ReturnErr

SpecCaller == Init /\ [][NextCaller]_vars

(***************************************************************************)
(* What the claims speak of, counted on the text itself.                   *)
(***************************************************************************)
Count(s, C) == Cardinality({i \in 1 .. Len(s) : s[i] \in C})

\* the number of characters of C among s[i .. j]
CountIn(s, i, j, C) == Cardinality({k \in i .. j : s[k] \in C})

Balanced(s) ==
    /\ CountIn(s, 1, Len(s), {"["}) = CountIn(s, 1, Len(s), {"]"})
    /\ \A k \in 1 .. Len(s) : CountIn(s, 1, k, {"]"}) <= CountIn(s, 1, k, {"["})

\* some ']' is read with every '[' before it already closed
HasExtraClose(s) ==
    \E k \in 1 .. Len(s) : CountIn(s, 1, k, {"]"}) > CountIn(s, 1, k, {"["})

\* some '[' is still open at the end of the stream
HasUnclosedOpen(s) ==
    \E i \in 1 .. Len(s) :
       /\ s[i] = "["
       /\ \A j \in i .. Len(s) : CountIn(s, i, j, {"["}) > CountIn(s, i, j, {"]"})

RECURSIVE NodeCount(_)
\* the nodes of a Program, those of the bodies of its Loop nodes included
NodeCount(p) ==
    IF p = <<>>
    THEN 0
    ELSE 1 + NodeCount(Head(p).body) + NodeCount(Tail(p))

Parsed == presult.kind # "none"

(***************************************************************************)
(* The parser's claims, under SpecParse.                                   *)
(***************************************************************************)
\* C1, as stated: for a text with balanced brackets parse returns Ok and
\* the node count of the tree equals the number of characters that are
\* neither ignored nor brackets.
C1_NodeCountIsOpCount ==
    (Parsed /\ Balanced(text)) =>
        /\ presult.kind = "Ok"
        /\ NodeCount(presult.program) = Count(text, OpChars)

\* C1, amended: for a text with balanced brackets parse returns Ok and the
\* node count of the tree equals the number of characters that are neither
\* ignored nor ']': every operation character and every '[' makes one node.
C1_NodeCountIsOpAndOpenCount ==
    (Parsed /\ Balanced(text)) =>
        /\ presult.kind = "Ok"
        /\ NodeCount(presult.program) = Count(text, OpChars \cup {"["})

\* a balanced text with a loop, an operation and an ignored character
C1_Witness ==
    /\ Parsed
    /\ Balanced(text)
    /\ presult.kind = "Ok"
    /\ Count(text, {"["}) >= 1
    /\ Count(text, OpChars) >= 1
    /\ Count(text, {"x"}) >= 1

\* C2: a text in which some ']' is read at nesting depth 0 fails to parse
\* with "extra ']'", whatever comes before or after that ']'.
C2_ExtraCloseReported ==
    (Parsed /\ HasExtraClose(text)) =>
        /\ presult.kind = "Err"
        /\ presult.err = ExtraClose

\* "[]][": a closed loop before the extra ']' and an unclosed '[' after it
C2_Witness ==
    /\ Parsed
    /\ text = <<"[", "]", "]", "[">>
    /\ presult.err = ExtraClose

\* C3, as stated: a text with a '[' that is never closed fails to parse
\* with "Missing ']' character".
C3_UnclosedOpenReported ==
    (Parsed /\ HasUnclosedOpen(text)) =>
        /\ presult.kind = "Err"
        /\ presult.err = MissingClose

\* C3, amended: a text with a '[' that is never closed, and with no ']'
\* read at nesting depth 0, fails to parse with "Missing ']' character",
\* at any nesting depth of the unclosed '['.
C3_UnclosedOpenReportedUnlessExtraClose ==
    (Parsed /\ HasUnclosedOpen(text) /\ ~HasExtraClose(text)) =>
        /\ presult.kind = "Err"
        /\ presult.err = MissingClose

\* the unclosed '[' is inside or after another loop
C3_Witness ==
    /\ Parsed
    /\ HasUnclosedOpen(text)
    /\ ~HasExtraClose(text)
    /\ Count(text, {"["}) >= 2
    /\ Count(text, {"]"}) >= 1
    /\ presult.err = MissingClose

(***************************************************************************)
(* The Context's claims.                                                   *)
(***************************************************************************)
\* C4, under Spec: no run of a parsed program from a fresh Context ends in
\* a panic of setdata: the growth amount does not overflow, the tape can be
\* grown and the assertion address < data.len() holds.
C4_NoPanicInSetdata ==
    ~(status = "panic" /\ fault \in {"overflow", "assert", "capacity"})

\* C5, under Spec: when the loop [-] is left, its body has run exactly N
\* times, N being the value the cell at the pointer held when the loop was
\* reached (no time for N = 0); that cell holds 0, and the pointer, the
\* other cells and the length of the tape are as they were.
C5_ClearLoop ==
    (last.op = "LoopExit" /\ last.body = <<Op("DecData")>>) =>
        LET N == getdata(last.edata, last.edp)
        IN  /\ last.n = N
            /\ dp = last.edp
            /\ getdata(data, dp) = 0
            /\ Len(data) = Len(last.edata)
            /\ \A a \in Usize \ {dp} : getdata(data, a) = getdata(last.edata, a)

\* [-] left after 255 runs of its body
C5_Witness ==
    /\ last.op = "LoopExit"
    /\ last.body = <<Op("DecData")>>
    /\ getdata(last.edata, last.edp) = 255
    /\ last.n = 255

\* C6, under Spec: once a GetByte has failed, no node is executed any more
\* (the failing GetByte stays the last step), the run only returns the Err,
\* and dp, the tape and stdout are as the failing GetByte found them, the
\* prompt it printed apart.
C6_ErrAbortsExecute ==
    (fault = "io") =>
        /\ last.op = "GetByte"
        /\ ~last.read.ok
        /\ status \in {"unwinding", "err"}
        /\ dp = last.dp
        /\ data = last.data
        /\ out = Append(last.out, Prompt)

\* the Err reached main from a GetByte inside a loop, the tape written before
C6_Witness ==
    /\ status = "err"
    /\ fault = "io"
    /\ last.depth >= 2
    /\ data # <<>>

\* the number of characters of a UTF-8 string
NumChars(input) == Cardinality({i \in 1 .. Len(input) : ~(input[i] \in 128 .. 191)})

\* C7, under Spec: a turn of getbyte returns Err when the read fails, asks
\* again when more than one character was read, returns the byte when
\* exactly one byte-sized character was read, and never panics.
C7_GetbyteOutcomes ==
    (last.op = "GetByte") =>
        /\ last.res # "Panic"
        /\ (~last.read.ok) => last.res = "Err"
        /\ (last.read.ok /\ NumChars(last.read.input) > 1) => last.res = "Continue"
        /\ (last.read.ok /\ NumChars(last.read.input) = 1
                /\ first_char(last.read.input) < ByteMod) =>
               (last.res = "Ok" /\ last.val = first_char(last.read.input))

\* C8, under SpecTape: getdata(address) returns the stored byte when
\* address is below the length of the tape and 0 otherwise, for every
\* address, and leaves the tape and the pointer as they were.
C8_GetdataTotal ==
    (last.op = "getdata") =>
        /\ last.ret = IF last.addr < Len(last.data) THEN last.data[last.addr + 1] ELSE 0
        /\ status = "new"
        /\ data = last.data
        /\ dp = last.dp

\* getdata of the greatest address on a tape that is not empty
C8_Witness ==
    /\ last.op = "getdata"
    /\ last.addr = UsizeMax
    /\ \E a \in Usize : getdata(data, a) # 0
    /\ last.ret = 0

\* C9, under SpecTape: setdata(address, value) returns; with address at or
\* beyond the length L it leaves a tape of length address + 1 whose cells
\* from L to address - 1 are 0, and with address below L a tape of length
\* L; cell address holds value and every other cell below L is unchanged.
C9_SetdataExtendsMinimally ==
    (last.op = "setdata") =>
        LET L == Len(last.data)
            a == last.addr
        IN  /\ status = "new"
            /\ Len(data) = IF a >= L THEN a + 1 ELSE L
            /\ \A i \in 0 .. (Len(data) - 1) :
                  data[i + 1] = IF i = a THEN last.val
                                ELSE IF i < L THEN last.data[i + 1]
                                ELSE 0
            /\ getdata(data, a) = last.val

\* C10, under Spec: no step of a run makes the tape shorter.
C10_TapeNeverShrinks == [][Len(data') >= Len(data)]_vars

\* a cell below the last one has just been written
C10_Witness ==
    /\ last.op \in {"IncData", "DecData", "GetByte"}
    /\ status = "running"
    /\ last.dp + 1 < Len(last.data)
    /\ data # last.data

\* C11, under Spec: an IncData step leaves (v + 1) mod 256 in the cell at
\* the pointer and a DecData step (v - 1) mod 256, v being the value the
\* cell held (0 for a cell never written): 255 becomes 0 and 0 becomes 255.
C11_CellArithmeticWraps ==
    LET v == getdata(last.data, last.dp)
    IN  /\ (last.op = "IncData") =>
               getdata(data, dp) = IF v = ByteMod - 1 THEN 0 ELSE v + 1
        /\ (last.op = "DecData") =>
               getdata(data, dp) = IF v = 0 THEN ByteMod - 1 ELSE v - 1

\* C12, under Spec: an IncPointer step moves the pointer from p to p + 1,
\* and from the greatest address to 0; a DecPointer step moves it from p to
\* p - 1, and from 0 to the greatest address; the move raises no error and
\* the run goes on.
C12_PointerArithmeticWraps ==
    /\ (last.op = "IncPointer") =>
           /\ dp = IF last.dp = UsizeMax THEN 0 ELSE last.dp + 1
           /\ status \in {"running", "ok"}
           /\ fault = "none"
    /\ (last.op = "DecPointer") =>
           /\ dp = IF last.dp = 0 THEN UsizeMax ELSE last.dp - 1
           /\ status \in {"running", "ok"}
           /\ fault = "none"

\* the pointer has gone left from 0 and then right from the greatest address
C12_Witness ==
    /\ last.op = "IncPointer"
    /\ last.dp = UsizeMax
    /\ dp = 0

\* C13, under Spec: every PutByte step appends to stdout one character,
\* whose code point is the value of the cell at the pointer; a program
\* without ',' and without loops that has run to its end has printed one
\* character for each of its '.', and nothing else; "++." run from a fresh
\* Context has printed the one character of code point 2.
C13_OneCharPerPutByte ==
    /\ (last.op = "PutByte") =>
           out = Append(last.out, Char(getdata(last.data, last.dp)))
    /\ (status = "ok" /\ Count(text, {"[", ","}) = 0) =>
           /\ Len(out) = Count(text, {"."})
           /\ \A i \in 1 .. Len(out) : out[i].kind = "char"
    /\ (status = "ok" /\ text = <<"+", "+", ".">>) => out = <<Char(2)>>

\* "++." has run to its end
C13_Witness ==
    /\ text = <<"+", "+", ".">>
    /\ status = "ok"
    /\ last.op = "PutByte"
    /\ out = <<Char(2)>>

MoveLoop == <<"+", "[", ">", "+", "<", "-", "]">>

\* C14, as stated, under SpecCaller: "+[>+<-]" run with the pointer at
\* address 0 and address 0 holding 1 ends with address 1 holding 1 and
\* address 0 holding 0.
C14_MoveLoopFromOne ==
    (text = MoveLoop /\ entry.dp = 0 /\ getdata(entry.data, 0) = 1
        /\ status \in {"ok", "err", "panic"}) =>
        /\ status = "ok"
        /\ getdata(data, 1) = 1
        /\ getdata(data, 0) = 0

\* C14, amended, under SpecCaller: "+[>+<-]" run with the pointer at
\* address 0 and addresses 0 and 1 holding 0, as in a fresh Context, enters
\* its loop once, with address 0 holding 1, and ends with address 1
\* holding 1 and address 0 holding 0.
C14_MoveLoopFromZero ==
    (text = MoveLoop /\ entry.dp = 0 /\ getdata(entry.data, 0) = 0
        /\ getdata(entry.data, 1) = 0) =>
        /\ status \in {"running", "ok"}
        /\ (last.op = "LoopEnter") =>
               (last.n = 0 /\ getdata(last.data, 0) = 1 /\ last.dp = 0)
        /\ (status = "ok") =>
               (getdata(data, 1) = 1 /\ getdata(data, 0) = 0 /\ dp = 0)

\* "+[>+<-]" has run to its end in a fresh Context
C14_Witness ==
    /\ text = MoveLoop
    /\ entry = [dp |-> 0, data |-> <<>>]
    /\ status = "ok"
    /\ data = <<0, 1>>

\* C15, under SpecCaller: "[]" parses to one Loop node with an empty body;
\* run in a Context whose cell at the pointer holds 0, its body is never
\* entered and execute returns Ok with dp, the tape and stdout unchanged.
C15_EmptyLoopIsNoOp ==
    (text = <<"[", "]">>) =>
        /\ presult = ParseOk(<<Loop(<<>>)>>, 2)
        /\ (getdata(entry.data, entry.dp) = 0) =>
               /\ status \in {"running", "ok"}
               /\ last.op \in {"none", "setdata", "LoopExit"}
               /\ dp = entry.dp
               /\ data = entry.data
               /\ out = <<>>

\* "[]" has run to its end on a tape with a cell that is not 0, its loop
\* left at the first check
C15_Witness ==
    /\ text = <<"[", "]">>
    /\ status = "ok"
    /\ last.op = "LoopExit"
    /\ last.n = 0
    /\ \E a \in Usize : getdata(data, a) # 0

\* C17, under Spec: the condition of a Loop node is checked on the cell at
\* the pointer of that moment: the body is entered only when that cell is
\* not 0 and the loop is left only when it is 0; a call of execute waits at
\* a Loop node whose body it has entered until that body has run to its
\* end, so only the innermost call takes steps; "+[>]" ends with the
\* pointer at address 1.
C17_LoopStateMachine ==
    /\ (last.op = "LoopEnter") => getdata(last.data, last.dp) # 0
    /\ (last.op = "LoopExit") =>
           (getdata(last.data, last.dp) = 0 /\ getdata(data, dp) = 0)
    /\ \A i \in 1 .. (Len(stack) - 1) :
           /\ stack[i].pc <= Len(stack[i].prog)
           /\ stack[i].prog[stack[i].pc].node = "Loop"
           /\ stack[i].n >= 1
           /\ stack[i + 1].prog = stack[i].prog[stack[i].pc].body
    /\ (text = <<"+", "[", ">", "]">> /\ status = "ok") => (dp = 1 /\ data = <<1>>)

\* "+[>]" has left its loop at address 1, having entered it at address 0
C17_Witness ==
    /\ text = <<"+", "[", ">", "]">>
    /\ status = "ok"
    /\ last.op = "LoopExit"
    /\ last.n = 1
    /\ last.edp = 0
    /\ dp = 1

\* the character of an operation
CharOf(cmd) ==
    CASE cmd = "IncPointer" -> ">"
      [] cmd = "DecPointer" -> "<"
      [] cmd = "IncData"    -> "+"
      [] cmd = "DecData"    -> "-"
      [] cmd = "GetByte"    -> ","
      [] cmd = "PutByte"    -> "."

RECURSIVE Render(_)
\* a Program as text: an operation as its character, a Loop as '[', its
\* body and ']'
Render(p) ==
    IF p = <<>>
    THEN <<>>
    ELSE LET a == Head(p)
         IN  (IF a.node = "Op"
              THEN <<CharOf(a.cmd)>>
              ELSE <<"[">> \o Render(a.body) \o <<"]">>) \o Render(Tail(p))

IsCommandChar(c) == c \in OpChars \cup {"[", "]"}

\* C18, under SpecParse: the Program parse returns, rendered as text, is
\* the input with its ignored characters removed.
C18_RenderOfParseIsInput ==
    (presult.kind = "Ok") => Render(presult.program) = SelectSeq(text, IsCommandChar)

\* a text with an ignored character, a loop that is not empty and an
\* operation right after its ']'
C18_Witness ==
    /\ presult.kind = "Ok"
    /\ Count(text, {"x"}) >= 1
    /\ \E i \in 2 .. (Len(text) - 2) :
          text[i] = "[" /\ text[i + 1] \in OpChars /\ text[i + 2] = "]"
    /\ text[Len(text)] \in OpChars

\* C19, under Spec: an IncPointer, DecPointer or PutByte step and a check
\* of a loop condition leave the tape as it was, length and contents; an
\* IncData, DecData or GetByte step leaves the pointer where it was, makes
\* the tape no shorter and changes the value read at no address but the
\* pointer's, the cells it adds to the tape holding 0.
C19_StepFrames ==
    /\ (last.op \in {"IncPointer", "DecPointer", "PutByte", "LoopEnter", "LoopExit"}) =>
           data = last.data
    /\ (last.op \in {"IncData", "DecData", "GetByte"}) =>
           /\ dp = last.dp
           /\ Len(data) >= Len(last.data)
           /\ \A a \in Usize \ {dp} : getdata(data, a) = getdata(last.data, a)
           /\ \A a \in 0 .. (Len(data) - 1) :
                 (a >= Len(last.data) /\ a # dp) => data[a + 1] = 0

\* a write two cells beyond the end of a tape that holds a value, the
\* pointer having moved there without growing the tape
C19_Witness ==
    /\ last.op = "IncData"
    /\ last.dp >= Len(last.data) + 1
    /\ \E a \in Usize : getdata(last.data, a) # 0
    /\ Len(data) = last.dp + 1
    /\ status = "running"

====
